---- MODULE Spec2Model ----
(***************************************************************************)
(* Drive Ya Nuts: solving and counting puzzles (src/drive_ya_nuts.py).     *)
(*                                                                         *)
(* A nut is a tuple of distinct marks read counterclockwise; a puzzle is a *)
(* tuple of nuts, the last one in the center, the others in a ring.        *)
(* Python tuples are modelled as sequences, so the Python index k is the   *)
(* TLA+ index k+1.                                                         *)
(*                                                                         *)
(* The source fixes the alphabet at 6 marks (range(6)), hence 7 nuts per   *)
(* puzzle and 5! = 120 packed nut indices.  Every one of those numbers is  *)
(* derived here from NumMarks, the size of the alphabet; the model is      *)
(* checked on a reduced alphabet, for which the generator's output can be  *)
(* enumerated completely.                                                  *)
(*                                                                         *)
(* An integer that goes through int.from_bytes / to_bytes / numpy uint64   *)
(* is modelled as its WordBytes base-256 digits, most significant first    *)
(* (a "word"); integer order is the lexicographic order of the digits.     *)
(***************************************************************************)
EXTENDS Integers, Sequences, FiniteSets, TLC

\* Size of the mark alphabet: range(6) in the source.
NumMarks == 4
\* len(set(inner)) == 3: the three inner marks forced on every ring nut.
InnerMarks == 3
\* Width in bytes of one record: dtype=np.uint64, f.read(8).
WordBytes == 8
\* Pool(6): the number of worker processes.
PoolSize == 6

Marks == 0 .. (NumMarks - 1)
\* A puzzle holds one ring nut per edge of the center nut, and the center.
NumNuts == NumMarks + 1

----------------------------------------------------------------------------
(* Python built-ins used by the program.                                   *)

\* A function on 1 .. n as an explicit tuple.
Tuple(s) == s \o <<>>

Range(s) == {s[i] : i \in DOMAIN s}

Reverse(s) == [i \in 1 .. Len(s) |-> s[Len(s) + 1 - i]]

Min(S) == CHOOSE x \in S : \A y \in S : x <= y

RECURSIVE Factorial(_)
Factorial(n) == IF n <= 1 THEN 1 ELSE n * Factorial(n - 1)

\* Iteration order of a Python set of small non-negative integers: ascending.
RECURSIVE SetToSeq(_)
SetToSeq(S) == IF S = {} THEN <<>> ELSE <<Min(S)>> \o SetToSeq(S \ {Min(S)})

\* Concatenation of the sequences seqs[lo], ..., seqs[hi], in order.
RECURSIVE Flatten(_, _, _)
Flatten(seqs, lo, hi) ==
    IF lo > hi THEN <<>>
    ELSE IF lo = hi THEN seqs[lo]
    ELSE LET mid == (lo + hi) \div 2
         IN  Flatten(seqs, lo, mid) \o Flatten(seqs, mid + 1, hi)

\* itertools.permutations(s): all orderings of s, in lexicographic order of
\* the positions.
RECURSIVE permutations(_)
permutations(s) ==
    IF Len(s) = 0 THEN << <<>> >>
    ELSE Flatten([i \in 1 .. Len(s) |->
                    LET rest == SubSeq(s, 1, i - 1) \o SubSeq(s, i + 1, Len(s))
                        sub  == permutations(rest)
                    IN  [j \in 1 .. Len(sub) |-> <<s[i]>> \o sub[j]]],
                 1, Len(s))

\* itertools.product(*lists): one element of each list, in lexicographic
\* order of the positions (the last list varies fastest).
RECURSIVE product(_)
product(lists) ==
    IF Len(lists) = 0 THEN << <<>> >>
    ELSE LET rest == product(Tail(lists))
             n    == Len(rest)
         IN  [i \in 1 .. Len(lists[1]) * n |->
                <<lists[1][((i - 1) \div n) + 1]>> \o rest[((i - 1) % n) + 1]]

\* sorted(s) for a sequence of small integers.
sorted(s) == SortSeq(s, <)

----------------------------------------------------------------------------
(* Words: integers as WordBytes base-256 digits, most significant first.   *)

\* int.from_bytes(bytes, byteorder): fewer than WordBytes bytes leave the
\* high digits zero.
from_bytes(bytes, byteorder) ==
    LET big == IF byteorder = "big" THEN bytes ELSE Reverse(bytes)
        pad == WordBytes - Len(big)
    IN  Tuple([i \in 1 .. WordBytes |-> IF i <= pad THEN 0 ELSE big[i - pad]])

\* int.to_bytes(length, byteorder='big'): the low `length` digits; Python
\* raises OverflowError when a higher digit is not zero.
to_bytes(word, length) ==
    CASE \A i \in 1 .. (WordBytes - length) : word[i] = 0 ->
           SubSeq(word, WordBytes - length + 1, WordBytes)

\* a < b on words.
WordLess(a, b) ==
    \E i \in 1 .. WordBytes :
        /\ a[i] < b[i]
        /\ \A j \in 1 .. (i - 1) : a[j] = b[j]

WordLeq(a, b) == a = b \/ WordLess(a, b)

----------------------------------------------------------------------------
(* align, and the packed / unpacked tables.                                *)

\* nut.index(mark): the first position of mark.
index(nut, mark) ==
    CHOOSE k \in 1 .. Len(nut) :
        /\ nut[k] = mark
        /\ \A j \in 1 .. (k - 1) : nut[j] # mark

align(nut, mark) ==
    LET k == index(nut, mark)
    IN  SubSeq(nut, k, Len(nut)) \o SubSeq(nut, 1, k - 1)

\* permutations(range(1, 6)), in enumeration order.
Tails == permutations([i \in 1 .. (NumMarks - 1) |-> i])

unpacked == [idx \in 0 .. (Len(Tails) - 1) |-> <<0>> \o Tails[idx + 1]]

packed ==
    [nut \in Range(unpacked) |->
        CHOOSE idx \in DOMAIN unpacked : unpacked[idx] = nut]

\* The keys of packed in insertion order: the 0-aligned nuts.
Centers == [i \in 1 .. Len(Tails) |-> unpacked[i - 1]]

\* pack without the sort: the indices in the order the nuts are given.
pack_unsorted(puzzle) ==
    from_bytes([i \in 1 .. Len(puzzle) |-> packed[align(puzzle[i], 0)]],
               "big")

pack(puzzle) ==
    from_bytes(sorted([i \in 1 .. Len(puzzle) |->
                          packed[align(puzzle[i], 0)]]),
               "big")

\* unpack reading the bytes of the word from the little end.
unpack_little(word) ==
    LET bytes == Reverse(to_bytes(word, NumNuts))
    IN  [i \in 1 .. NumNuts |-> unpacked[bytes[i]]]

unpack(word) ==
    LET bytes == to_bytes(word, NumNuts)
    IN  [i \in 1 .. NumNuts |-> unpacked[bytes[i]]]

----------------------------------------------------------------------------
(* all_solutions: brute force over the orderings of the nuts.              *)

\* zip(nuts[-1], nuts[:-1]): each ring nut rotated so that its edge 0 shows
\* the mark of the center edge it faces.
ring_of(nuts) ==
    LET center == nuts[Len(nuts)]
        n      == Min({Len(center), Len(nuts) - 1})
    IN  [k \in 1 .. n |-> align(nuts[k], center[k])]

\* for k in range(6): ring[k][1] == ring[k - 1][-1], ring[-1] the last nut.
solved(ring) ==
    \A k \in 1 .. NumMarks :
        LET prev == ring[IF k = 1 THEN Len(ring) ELSE k - 1]
        IN  ring[k][2] = prev[Len(prev)]

\* set(permutations(align(nut, 0) for nut in puzzle)): the distinct
\* orderings of the 0-aligned nuts.
orderings(puzzle) ==
    LET aligned == [i \in 1 .. Len(puzzle) |-> align(puzzle[i], 0)]
    IN  {[i \in 1 .. Len(puzzle) |-> aligned[p[i]]] :
            p \in Permutations(1 .. Len(puzzle))}

\* The arrangements ring + (nuts[-1],) yielded, one per solved ordering.
all_solutions(puzzle) ==
    {ring_of(nuts) \o <<nuts[Len(nuts)]>> :
        nuts \in {o \in orderings(puzzle) : solved(ring_of(o))}}

----------------------------------------------------------------------------
(* all_puzzles: the ring generator.                                        *)

\* product(range(6), repeat=6)
matchings == product([k \in 1 .. NumMarks |-> SetToSeq(Marks)])

\* zip(matching, center, matching[-1:] + matching[:-1])
halves_of(matching, center) ==
    [k \in 1 .. Min({Len(matching), Len(center)}) |->
        <<matching[k], center[k],
          matching[IF k = 1 THEN Len(matching) ELSE k - 1]>>]

\* all(len(set(inner)) == 3 for inner in halves)
valid(halves) ==
    \A k \in DOMAIN halves : Cardinality(Range(halves[k])) = InnerMarks

\* product(*([inner + outer for outer in
\*            permutations(set(range(6)) - set(inner))] for inner in halves))
rings_of(halves) ==
    product([k \in DOMAIN halves |->
               LET outers == permutations(SetToSeq(Marks \ Range(halves[k])))
               IN  [j \in 1 .. Len(outers) |-> halves[k] \o outers[j]]])

\* A generator that pairs matching[k] with the mark two places back:
\* zip(matching, center, matching[-2:] + matching[:-2]).
all_puzzles_twoback(center) ==
    LET twoback(matching) ==
            [k \in 1 .. Len(center) |->
                <<matching[k], center[k],
                  matching[((k + Len(matching) - 3) % Len(matching)) + 1]>>]
        ok(matching) == valid(twoback(matching))
        good  == SelectSeq(matchings, ok)
        packs == [m \in 1 .. Len(good) |->
                    LET rings == rings_of(twoback(good[m]))
                    IN  [r \in 1 .. Len(rings) |-> pack(rings[r] \o <<center>>)]]
    IN  Flatten(packs, 1, Len(good))

\* A generator whose matchings never use mark 0: product(range(1, 6), ...).
all_puzzles_skip(center) ==
    LET ok(matching) == /\ 0 \notin Range(matching)
                        /\ valid(halves_of(matching, center))
        good  == SelectSeq(matchings, ok)
        packs == [m \in 1 .. Len(good) |->
                    LET rings == rings_of(halves_of(good[m], center))
                    IN  [r \in 1 .. Len(rings) |-> pack(rings[r] \o <<center>>)]]
    IN  Flatten(packs, 1, Len(good))

\* A generator that yields every identifier once: set(all_puzzles(center)).
all_puzzles_once(center) ==
    LET ok(matching) == valid(halves_of(matching, center))
        good  == SelectSeq(matchings, ok)
        packs == [m \in 1 .. Len(good) |->
                    LET rings == rings_of(halves_of(good[m], center))
                    IN  [r \in 1 .. Len(rings) |-> pack(rings[r] \o <<center>>)]]
        all   == Flatten(packs, 1, Len(good))
        first == {i \in 1 .. Len(all) : \A j \in 1 .. (i - 1) : all[j] # all[i]}
    IN  [k \in 1 .. Cardinality(first) |->
            all[CHOOSE i \in first : Cardinality({j \in first : j <= i}) = k]]

\* The packed puzzles in the order they are yielded.
all_puzzles(center) ==
    LET ok(matching) == valid(halves_of(matching, center))
        good  == SelectSeq(matchings, ok)
        packs == [m \in 1 .. Len(good) |->
                    LET rings == rings_of(halves_of(good[m], center))
                    IN  [r \in 1 .. Len(rings) |-> pack(rings[r] \o <<center>>)]]
    IN  Flatten(packs, 1, Len(good))

\* all_puzzles(center) for every key of packed, computed once.
AllPuzzles ==
    Tuple([c \in 1 .. Len(Centers) |-> Tuple(all_puzzles(Centers[c]))])

\* The number of times a value occurs in a sequence.
Count(s, x) == Cardinality({i \in DOMAIN s : s[i] = x})

----------------------------------------------------------------------------
(* save_puzzles / load_puzzles: the per-center artifacts.                  *)

\* ''.join(str(mark) for mark in center): one character per mark.
filename(center) == [i \in 1 .. Len(center) |-> ToString(center[i])]

\* np.unique(a): ascending, every value once.
np_unique(a) ==
    LET first == {i \in 1 .. Len(a) : \A j \in 1 .. (i - 1) : a[j] # a[i]}
    IN  SortSeq([k \in 1 .. Cardinality(first) |->
                    a[CHOOSE i \in first :
                          Cardinality({j \in first : j <= i}) = k]],
                WordLess)

\* a.sort() on a uint64 array: ascending, duplicates kept.
np_sort(a) == SortSeq(a, WordLess)

\* a.tofile(f): the array's memory, every word in the host's byte order.
tofile(a, hostorder) ==
    Flatten([i \in 1 .. Len(a) |->
                IF hostorder = "big" THEN a[i] ELSE Reverse(a[i])],
            1, Len(a))

\* The values yielded from a file: f.read(8) until it returns nothing, each
\* chunk (the last one may be short) decoded with byteorder='little'.
load_puzzles(bytes) ==
    Tuple([i \in 1 .. ((Len(bytes) + WordBytes - 1) \div WordBytes) |->
              from_bytes(SubSeq(bytes, WordBytes * (i - 1) + 1,
                                Min({WordBytes * i, Len(bytes)})),
                         "little")])

----------------------------------------------------------------------------
(* heapq.merge, groupby and Counter.                                       *)

\* The iterable whose head is emitted next: the least head, the earliest
\* iterable among equal heads (heap entries are [value, order, next]).
merge_pick(streams, pos) ==
    LET live == {s \in DOMAIN streams : pos[s] <= Len(streams[s])}
    IN  CHOOSE s \in live :
            \A t \in live :
                \/ WordLess(streams[s][pos[s]], streams[t][pos[t]])
                \/ /\ streams[s][pos[s]] = streams[t][pos[t]]
                   /\ s <= t

\* One value is emitted and its iterable advanced.
merge_step(streams, st) ==
    LET s == merge_pick(streams, st.pos)
    IN  [pos |-> [st.pos EXCEPT ![s] = @ + 1],
         out |-> Append(st.out, streams[s][st.pos[s]])]

\* n values are emitted: the first half of them, then the others.
RECURSIVE merge_run(_, _, _)
merge_run(streams, st, n) ==
    IF n = 0 THEN st
    ELSE IF n = 1 THEN merge_step(streams, st)
    ELSE LET half == merge_run(streams, st, n \div 2)
         IN  IF Len(half.out) >= 0
             THEN merge_run(streams, half, n - (n \div 2))
             ELSE half

RECURSIVE SumSeq(_, _)
SumSeq(s, n) == IF n = 0 THEN 0 ELSE s[n] + SumSeq(s, n - 1)

\* The iterables one after the other: chain(*iterables), no merging.
heapq_chain(streams) == Flatten(streams, 1, Len(streams))

heapq_merge(streams) ==
    LET lens == [s \in 1 .. Len(streams) |-> Len(streams[s])]
    IN  merge_run(streams,
                  [pos |-> Tuple([s \in 1 .. Len(streams) |-> 1]), out |-> <<>>],
                  SumSeq(lens, Len(lens))).out

\* groupby: the runs of consecutive equal values, as <<value, length>>.
group_step(values, groups, i) ==
    IF Len(groups) > 0 /\ groups[Len(groups)][1] = values[i]
    THEN [groups EXCEPT ![Len(groups)] = <<@[1], @[2] + 1>>]
    ELSE Append(groups, <<values[i], 1>>)

RECURSIVE group_run(_, _, _, _)
group_run(values, groups, lo, hi) ==
    IF lo > hi THEN groups
    ELSE IF lo = hi THEN group_step(values, groups, lo)
    ELSE LET mid == (lo + hi) \div 2
             half == group_run(values, groups, lo, mid)
         IN  IF Len(half) >= 0
             THEN group_run(values, half, mid + 1, hi)
             ELSE half

groupby(values) == group_run(values, <<>>, 1, Len(values))

\* Counter(len(list(group)) for puzzle, group in groupby(...)): the counter
\* maps a group length to the number of groups of that length seen so far.
count_step(counter, groups, i) ==
    LET n == groups[i][2]
    IN  IF n \in DOMAIN counter
        THEN [counter EXCEPT ![n] = @ + 1]
        ELSE counter @@ (n :> 1)

RECURSIVE count_run(_, _, _, _)
count_run(counter, groups, lo, hi) ==
    IF lo > hi THEN counter
    ELSE IF lo = hi THEN count_step(counter, groups, lo)
    ELSE LET mid == (lo + hi) \div 2
             half == count_run(counter, groups, lo, mid)
         IN  IF Cardinality(DOMAIN half) >= 0
             THEN count_run(half, groups, mid + 1, hi)
             ELSE half

Counter(groups) == count_run(<<>>, groups, 1, Len(groups))

\* sum(counts.values())
RECURSIVE SumValues(_, _)
SumValues(counter, keys) ==
    IF keys = {} THEN 0
    ELSE LET k == Min(keys) IN counter[k] + SumValues(counter, keys \ {k})

----------------------------------------------------------------------------
(* Bounds of the model.                                                    *)

\* The puzzles solved and counted are drawn from the first MaxShapes keys
\* of packed.
MaxShapes == 6
\* The puzzles that are turned, reordered and changed start from the first
\* MaxStart keys of packed; MaxOps such operations are applied.
MaxStart == 3
MaxOps == 2
\* The first MaxCenters keys of packed are dispatched and merged.
MaxCenters == 2
\* Arbitrary sorted streams: their number, their length, their largest value.
MaxStreams == 2
MaxLen == 3
MaxId == 1

NumShapes == Min({MaxShapes, Len(Centers)})

NumTasks == Min({MaxCenters, Len(Centers)})

TaskIds == 1 .. NumTasks

\* The puzzles over the first n shapes, one per multiset.
PuzzlesOver(n) ==
    {[i \in 1 .. NumNuts |-> unpacked[f[i]]] :
        f \in {g \in [1 .. NumNuts -> 0 .. (n - 1)] :
                 \A i \in 1 .. (NumNuts - 1) : g[i] <= g[i + 1]}}

SamplePuzzles == PuzzlesOver(NumShapes)

StartPuzzles == PuzzlesOver(Min({MaxStart, Len(Centers)}))

\* The sorted arrays save_puzzles holds before writing them, center by center.
SortedPuzzles == Tuple([c \in TaskIds |-> Tuple(np_sort(AllPuzzles[c]))])

\* Ascending streams of at most MaxLen small values.
SampleStream ==
    UNION {{[i \in 1 .. n |-> from_bytes(<<f[i]>>, "big")] :
               f \in {g \in [1 .. n -> 0 .. MaxId] :
                        \A i \in 1 .. (n - 1) : g[i] <= g[i + 1]}} :
           n \in 0 .. MaxLen}

SampleStreams == [1 .. MaxStreams -> SampleStream]

----------------------------------------------------------------------------
VARIABLES
    pc,         \* where the run stands
    given,      \* the puzzle drawn as input
    held,       \* that puzzle after the operations applied so far
    ops,        \* how many operations were applied
    solutions,  \* all_solutions(held), once computed
    yields,     \* yields[c]: how often all_puzzles(Centers[c]) yields pack(held)
    base,       \* pack(given), once computed
    ident,      \* pack(held), once computed
    back,       \* unpack(ident), once computed
    again,      \* pack(back), once computed
    host,       \* sys.byteorder of the machine: "little" or "big"
    task,       \* task[c]: queued, taken by a worker, then the steps of
                \* save_puzzles(Centers[c]), then collected
    runs,       \* runs[c]: how often save_puzzles(Centers[c]) was entered
    arrays,     \* arrays[c]: the numpy array a of the worker saving center c
    artifacts,  \* the files: name |-> bytes, for the files that exist
    opened,     \* name |-> the centers whose save_puzzles opened that file
    damaged,    \* whether a file was removed or cut behind the program's back
    inputs,     \* the streams handed to heapq.merge
    merged,     \* the values heapq.merge emitted
    counts,     \* the Counter: group length |-> number of groups
    total       \* sum(counts.values()), once printed

vars == <<pc, given, held, ops, solutions, yields, base, ident, back, again,
          host, task, runs, arrays, artifacts, opened, damaged,
          inputs, merged, counts, total>>

packVars == <<base, ident, back, again>>
puzzleVars == <<given, held, ops, solutions, yields, packVars>>
poolVars == <<host, task, runs, arrays, artifacts, opened, damaged>>
mergeVars == <<inputs, merged, counts, total>>

NoPack == base = <<>> /\ ident = <<>> /\ back = <<>> /\ again = <<>>

NoPuzzle ==
    /\ given = <<>> /\ held = <<>> /\ ops = 0
    /\ solutions = {} /\ yields = <<>>
    /\ NoPack

NoPool ==
    /\ host = "little"
    /\ task = <<>> /\ runs = <<>> /\ arrays = <<>>
    /\ artifacts = <<>> /\ opened = <<>> /\ damaged = FALSE

NoMerge ==
    /\ inputs = <<>> /\ merged = <<>> /\ counts = <<>> /\ total = 0

----------------------------------------------------------------------------
(* Nuts and puzzles: rotating a nut, reordering and replacing nuts.        *)

InitTiles ==
    /\ pc = "tiles"
    /\ given \in StartPuzzles
    /\ held = given
    /\ ops = 0 /\ solutions = {} /\ yields = <<>>
    /\ NoPack /\ NoPool /\ NoMerge

\* Nut i turned by one edge.
RotateNut(i) ==
    /\ pc = "tiles" /\ ops < MaxOps
    /\ held' = [held EXCEPT ![i] = align(held[i], held[i][2])]
    /\ ops' = ops + 1
    /\ UNCHANGED <<pc, given, solutions, yields, packVars, poolVars, mergeVars>>

\* Nuts i and i+1 exchanged.
SwapNuts(i) ==
    /\ pc = "tiles" /\ ops < MaxOps
    /\ held' = [held EXCEPT ![i] = held[i + 1], ![i + 1] = held[i]]
    /\ ops' = ops + 1
    /\ UNCHANGED <<pc, given, solutions, yields, packVars, poolVars, mergeVars>>

\* Nut i replaced by a nut of the next shape.
ReplaceNut(i) ==
    /\ pc = "tiles" /\ ops < MaxOps
    /\ LET idx == packed[align(held[i], 0)]
       IN  held' = [held EXCEPT ![i] = unpacked[(idx + 1) % Len(Centers)]]
    /\ ops' = ops + 1
    /\ UNCHANGED <<pc, given, solutions, yields, packVars, poolVars, mergeVars>>

\* pack is applied to the puzzle as drawn and to the puzzle as it is now.
Pack ==
    /\ pc = "tiles"
    /\ base' = pack(given)
    /\ ident' = pack(held)
    /\ pc' = "packed"
    /\ UNCHANGED <<given, held, ops, solutions, yields, back, again,
                   poolVars, mergeVars>>

\* unpack is applied to the identifier, and pack to what it returns.
Unpack ==
    /\ pc = "packed"
    /\ LET puzzle == unpack(ident)
       IN  /\ back' = puzzle
           /\ again' = pack(puzzle)
    /\ pc' = "unpacked"
    /\ UNCHANGED <<given, held, ops, solutions, yields, base, ident,
                   poolVars, mergeVars>>

NextTiles ==
    \/ \E i \in 1 .. NumNuts : RotateNut(i)
    \/ \E i \in 1 .. (NumNuts - 1) : SwapNuts(i)
    \/ \E i \in 1 .. NumNuts : ReplaceNut(i)
    \/ Pack
    \/ Unpack

SpecTiles == InitTiles /\ [][NextTiles]_vars

----------------------------------------------------------------------------
(* The brute-force solver against the ring generator, puzzle by puzzle.    *)

InitVerify ==
    /\ pc = "solve"
    /\ given \in SamplePuzzles
    /\ held = given
    /\ ops = 0 /\ solutions = {} /\ yields = <<>>
    /\ NoPack /\ NoPool /\ NoMerge

Solve ==
    /\ pc = "solve"
    /\ solutions' = all_solutions(held)
    /\ pc' = "count"
    /\ UNCHANGED <<given, held, ops, yields, packVars, poolVars, mergeVars>>

\* The next center's generator is run and its yields of pack(held) counted.
CountCenter ==
    /\ pc = "count"
    /\ LET c == Len(yields) + 1
       IN  /\ yields' = Append(yields, Count(AllPuzzles[c], pack(held)))
           /\ pc' = IF c = Len(Centers) THEN "done" ELSE "count"
    /\ UNCHANGED <<given, held, ops, solutions, packVars, poolVars, mergeVars>>

NextVerify == Solve \/ CountCenter

SpecVerify == InitVerify /\ [][NextVerify]_vars

----------------------------------------------------------------------------
(* Merging and counting.                                                   *)

\* counts = Counter(... groupby(heapq.merge(...))) on streams already read.
MergeCount ==
    /\ pc = "merge"
    /\ LET out == heapq_merge(inputs)
       IN  /\ merged' = out
           /\ counts' = Counter(groupby(out))
    /\ pc' = "report"
    /\ UNCHANGED <<inputs, total, puzzleVars, poolVars>>

\* The histogram lines and the grand total are printed.
Report ==
    /\ pc = "report"
    /\ total' = SumValues(counts, DOMAIN counts)
    /\ pc' = "done"
    /\ UNCHANGED <<inputs, merged, counts, puzzleVars, poolVars>>

InitMerge ==
    /\ pc = "merge"
    /\ inputs \in SampleStreams \cup {SortedPuzzles}
    /\ merged = <<>> /\ counts = <<>> /\ total = 0
    /\ NoPuzzle /\ NoPool

NextMerge == MergeCount \/ Report

SpecMerge == InitMerge /\ [][NextMerge]_vars

----------------------------------------------------------------------------
(* The program: a pool of workers saving, then one merge.                  *)

Init ==
    /\ pc = "pool"
    /\ host \in {"little", "big"}
    /\ task = [c \in TaskIds |-> "queued"]
    /\ runs = [c \in TaskIds |-> 0]
    /\ arrays = [c \in TaskIds |-> <<>>]
    /\ artifacts = <<>>
    /\ opened = <<>>
    /\ damaged = FALSE
    /\ NoPuzzle /\ NoMerge

\* The workers that hold a task: taken off the queue, save_puzzles not
\* yet returned.
Busy == {c \in TaskIds : task[c] \in {"taken", "open", "filled", "sorted"}}

\* An idle worker takes the next center off the task queue, which holds the
\* keys of packed in order.  When the worker enters save_puzzles is up to
\* the scheduler.
Dispatch(c) ==
    /\ pc = "pool"
    /\ task[c] = "queued"
    /\ \A d \in TaskIds : d < c => task[d] # "queued"
    /\ Cardinality(Busy) < PoolSize
    /\ task' = [task EXCEPT ![c] = "taken"]
    /\ UNCHANGED <<pc, host, runs, arrays, artifacts, opened, damaged,
                   puzzleVars, mergeVars>>

\* The worker enters save_puzzles: open(filename, 'wb') creates or empties
\* the file.
Start(c) ==
    /\ pc = "pool"
    /\ task[c] = "taken"
    /\ task' = [task EXCEPT ![c] = "open"]
    /\ runs' = [runs EXCEPT ![c] = @ + 1]
    /\ LET name == filename(Centers[c])
       IN  /\ artifacts' = [n \in DOMAIN artifacts \cup {name} |->
                               IF n = name THEN <<>> ELSE artifacts[n]]
           /\ opened' = [n \in DOMAIN opened \cup {name} |->
                            IF n \in DOMAIN opened
                            THEN IF n = name THEN opened[n] \cup {c} ELSE opened[n]
                            ELSE {c}]
    /\ UNCHANGED <<pc, host, arrays, damaged, puzzleVars, mergeVars>>

\* a = np.fromiter(all_puzzles(center), dtype=np.uint64)
Fill(c) ==
    /\ pc = "pool"
    /\ task[c] = "open"
    /\ arrays' = [arrays EXCEPT ![c] = AllPuzzles[c]]
    /\ task' = [task EXCEPT ![c] = "filled"]
    /\ UNCHANGED <<pc, host, runs, artifacts, opened, damaged, puzzleVars,
                   mergeVars>>

\* a.sort()
Sort(c) ==
    /\ pc = "pool"
    /\ task[c] = "filled"
    /\ arrays' = [arrays EXCEPT ![c] = np_sort(arrays[c])]
    /\ task' = [task EXCEPT ![c] = "sorted"]
    /\ UNCHANGED <<pc, host, runs, artifacts, opened, damaged, puzzleVars,
                   mergeVars>>

\* a.tofile(f), the file is closed and save_puzzles returns.
Write(c) ==
    /\ pc = "pool"
    /\ task[c] = "sorted"
    /\ artifacts' = [artifacts EXCEPT ![filename(Centers[c])] =
                        tofile(arrays[c], host)]
    /\ arrays' = [arrays EXCEPT ![c] = <<>>]
    /\ task' = [task EXCEPT ![c] = "saved"]
    /\ UNCHANGED <<pc, host, runs, opened, damaged, puzzleVars, mergeVars>>

\* The main process takes the result from imap_unordered.
Collect(c) ==
    /\ pc = "pool"
    /\ task[c] = "saved"
    /\ task' = [task EXCEPT ![c] = "collected"]
    /\ UNCHANGED <<pc, host, runs, arrays, artifacts, opened, damaged,
                   puzzleVars, mergeVars>>

\* Every center was handed to a worker (none is left in the task queue).
PoolStarted == \A c \in TaskIds : task[c] # "queued"

\* The for loop over imap_unordered has ended: every result was received.
PoolDone == \A c \in TaskIds : task[c] = "collected"

\* Outside the program: one artifact is removed, or loses its last bytes.
Damage(c, cut) ==
    /\ pc = "pool" /\ PoolDone /\ ~damaged
    /\ LET name == filename(Centers[c])
       IN  /\ name \in DOMAIN artifacts
           /\ cut <= Len(artifacts[name])
           /\ artifacts' =
                IF cut = 0
                THEN [n \in DOMAIN artifacts \ {name} |-> artifacts[n]]
                ELSE [artifacts EXCEPT ![name] = SubSeq(@, 1, Len(@) - cut)]
    /\ damaged' = TRUE
    /\ UNCHANGED <<pc, host, task, runs, arrays, opened, puzzleVars, mergeVars>>

\* counts = Counter(... groupby(heapq.merge(*(load_puzzles(center) ...)))):
\* open() of a missing file raises and the program ends there.
Aggregate ==
    /\ pc = "pool" /\ PoolDone
    /\ IF \E c \in TaskIds : filename(Centers[c]) \notin DOMAIN artifacts
       THEN /\ pc' = "failed"
            /\ UNCHANGED mergeVars
       ELSE LET read == Tuple([c \in TaskIds |->
                          load_puzzles(artifacts[filename(Centers[c])])])
                out  == heapq_merge(read)
            IN  /\ inputs' = read
                /\ merged' = out
                /\ counts' = Counter(groupby(out))
                /\ pc' = "report"
            /\ UNCHANGED total
    /\ UNCHANGED <<puzzleVars, poolVars>>

Next ==
    \/ \E c \in TaskIds :
          Dispatch(c) \/ Start(c) \/ Fill(c) \/ Sort(c) \/ Write(c) \/ Collect(c)
    \/ \E c \in TaskIds, cut \in 0 .. (WordBytes - 1) : Damage(c, cut)
    \/ Aggregate
    \/ Report

Spec == Init /\ [][Next]_vars
----------------------------------------------------------------------------
(* Properties of SpecVerify: the ring generator against all_solutions.     *)

\* The solved arrangements of the held puzzle whose center is Centers[c]:
\* ring[k][0] == c[k] and ring[k][1] == ring[k-1][5] for every k.
SolvedWith(c) ==
    {a \in solutions :
        /\ a[NumNuts] = Centers[c]
        /\ \A k \in 1 .. NumMarks :
              /\ a[k][1] = Centers[c][k]
              /\ a[k][2] = a[IF k = 1 THEN NumMarks ELSE k - 1][NumMarks]}

\* NumNuts copies of the nut (0, 1, 2, ...).
IdentityCopies == [i \in 1 .. NumNuts |-> unpacked[0]]

\* C1 (soundness): whenever all_puzzles(c) yields the identifier of a
\* puzzle, all_solutions finds a solved arrangement of that puzzle with c as
\* its center; and all_puzzles of the identity nut never yields the puzzle
\* made of copies of the identity nut.
Soundness ==
    /\ \A c \in 1 .. Len(yields) : yields[c] > 0 => SolvedWith(c) # {}
    /\ (held = IdentityCopies /\ Len(yields) >= 1) => yields[1] = 0

SoundnessWitness ==
    /\ pc = "done"
    /\ \E c \in 1 .. Len(yields) : yields[c] > 0 /\ SolvedWith(c) # {}

\* C2 (completeness): whenever all_solutions finds a solved arrangement of
\* a puzzle with center c, all_puzzles(c) yields the identifier of the puzzle.
Completeness ==
    \A c \in 1 .. Len(yields) :
        (\E a \in solutions : a[NumNuts] = Centers[c]) => yields[c] > 0

CompletenessWitness ==
    /\ pc = "done"
    /\ \E c, d \in 1 .. Len(yields) :
          /\ \E a \in solutions : a[NumNuts] = Centers[c]
          /\ yields[c] > 0
          /\ \A a \in solutions : a[NumNuts] # Centers[d]
          /\ yields[d] = 0

\* C10 (multiplicity): once every center was counted, the number of times
\* the identifier of a puzzle was yielded, summed over the centers, is the
\* number of arrangements all_solutions yields for that puzzle.
Multiplicity ==
    pc = "done" => SumSeq(yields, Len(yields)) = Cardinality(solutions)

MultiplicityWitness ==
    /\ pc = "done"
    /\ Cardinality(solutions) >= 2
    /\ SumSeq(yields, Len(yields)) = Cardinality(solutions)

----------------------------------------------------------------------------
(* Properties of SpecTiles: pack and unpack.                               *)

\* One nut is the other turned.
SameShape(a, b) == \E mark \in Marks : align(a, mark) = b

\* Two puzzles hold every shape the same number of times.
SameShapes(p, q) ==
    \A i \in 1 .. NumNuts :
        /\ Cardinality({j \in 1 .. NumNuts : SameShape(p[j], p[i])})
             = Cardinality({j \in 1 .. NumNuts : SameShape(q[j], p[i])})
        /\ Cardinality({j \in 1 .. NumNuts : SameShape(q[j], q[i])})
             = Cardinality({j \in 1 .. NumNuts : SameShape(p[j], q[i])})

\* C3 (pack invariance): turning and reordering the nuts of a puzzle leaves
\* its identifier unchanged, and two puzzles have the same identifier only
\* if they hold the same shapes the same number of times.
PackInvariance ==
    pc \in {"packed", "unpacked"} => (SameShapes(held, given) <=> ident = base)

PackInvarianceWitness ==
    /\ pc = "packed" /\ ops = MaxOps
    /\ ident = base
    /\ \E i \in 1 .. NumNuts : held[i][1] # 0
    /\ [i \in 1 .. NumNuts |-> align(held[i], 0)]
         # [i \in 1 .. NumNuts |-> align(given[i], 0)]

\* C7 (round trip): unpack(pack(P)) is NumNuts nuts, each with mark 0
\* first, in ascending order of their index, the 0-aligned nuts of P; packing
\* it again gives pack(P); packed and unpacked are inverse to each other
\* over the indices 0 .. (NumMarks-1)! - 1.
RoundTrip ==
    pc = "unpacked" =>
        LET aligned == [i \in 1 .. NumNuts |-> align(held[i], 0)]
        IN  /\ Len(back) = NumNuts
            /\ \A i \in 1 .. NumNuts : back[i][1] = 0
            /\ \A i \in 1 .. (NumNuts - 1) : packed[back[i]] <= packed[back[i + 1]]
            /\ \A i \in 1 .. NumNuts :
                  Count(back, aligned[i]) = Count(aligned, aligned[i])
            /\ again = ident
            /\ DOMAIN unpacked = 0 .. (Factorial(NumMarks - 1) - 1)
            /\ DOMAIN packed = {<<0>> \o t : t \in Range(Tails)}
            /\ Cardinality(DOMAIN packed) = Factorial(NumMarks - 1)
            /\ \A idx \in DOMAIN unpacked : packed[unpacked[idx]] = idx
            /\ \A nut \in DOMAIN packed : unpacked[packed[nut]] = nut

RoundTripWitness ==
    /\ pc = "unpacked" /\ ops > 0
    /\ \E i \in 1 .. NumNuts : held[i][1] # 0
    /\ \E i \in 1 .. (NumNuts - 1) :
          packed[align(held[i], 0)] > packed[align(held[i + 1], 0)]
    /\ back # held
    /\ again = ident

----------------------------------------------------------------------------
(* Properties of SpecMerge: the merge and the histogram.                   *)

Ascending(s) == \A i \in 1 .. (Len(s) - 1) : WordLeq(s[i], s[i + 1])

\* The values that occur in some stream.
Distinct(streams) == UNION {Range(streams[k]) : k \in DOMAIN streams}

\* The sum over the group sizes n of n * counter[n].
RECURSIVE Records(_, _)
Records(counter, keys) ==
    IF keys = {} THEN 0
    ELSE LET k == Min(keys)
         IN  k * counter[k] + Records(counter, keys \ {k})

\* C8 (conservation): for ascending streams, the merged stream is ascending,
\* the group sizes weighted by their counts add up to the number of records
\* of all streams, and the counts add up to the number of distinct
\* identifiers, which is the total printed.
Conservation ==
    (/\ pc \in {"report", "done"}
     /\ \A k \in DOMAIN inputs : Ascending(inputs[k]))
    => /\ Ascending(merged)
       /\ Records(counts, DOMAIN counts)
            = SumSeq([k \in DOMAIN inputs |-> Len(inputs[k])], Len(inputs))
       /\ SumValues(counts, DOMAIN counts) = Cardinality(Distinct(inputs))
       /\ pc = "done" => total = Cardinality(Distinct(inputs))

ConservationWitness ==
    /\ pc = "done"
    /\ Cardinality(DOMAIN counts) >= 2
    /\ \E k \in DOMAIN inputs : Len(inputs[k]) >= 2
    /\ \E j, k \in DOMAIN inputs :
          j # k /\ Range(inputs[j]) \cap Range(inputs[k]) # {}
    /\ total < Len(merged)

\* The solved arrangements of a puzzle whose center is among the merged ones.
Arrangements(id) ==
    {a \in all_solutions(unpack(id)) : packed[a[NumNuts]] < NumTasks}

\* C4 as stated: the size of the group of an identifier in the merge of the
\* per-center streams is the number of distinct centers with which the
\* puzzle is solvable.
GroupIsCenters ==
    (pc = "done" /\ inputs = SortedPuzzles)
    => LET groups == groupby(merged)
       IN  \A g \in 1 .. Len(groups) :
              groups[g][2]
                = Cardinality({a[NumNuts] : a \in all_solutions(unpack(groups[g][1]))})

\* C4 (amended): the size of the group of an identifier in the merge of the
\* per-center streams is the number of solved arrangements of the puzzle
\* (center and ring) over the merged centers, which is the number of records
\* the generators of these centers yield for it; it is at least the number
\* of distinct centers among them.
GroupIsSolutions ==
    (pc = "done" /\ inputs = SortedPuzzles)
    => LET groups == groupby(merged)
       IN  \A g \in 1 .. Len(groups) :
              LET sols == Arrangements(groups[g][1])
              IN  /\ groups[g][2] = Cardinality(sols)
                  /\ groups[g][2]
                       = SumSeq([c \in TaskIds |->
                                    Count(AllPuzzles[c], groups[g][1])], NumTasks)
                  /\ groups[g][2] >= Cardinality({a[NumNuts] : a \in sols})

GroupIsSolutionsWitness ==
    /\ pc = "done" /\ inputs = SortedPuzzles
    /\ LET groups == groupby(merged)
       IN  \E g \in 1 .. Len(groups) :
              /\ groups[g][2] = Cardinality(Arrangements(groups[g][1]))
              /\ groups[g][2]
                   > Cardinality({a[NumNuts] : a \in Arrangements(groups[g][1])})

----------------------------------------------------------------------------
(* Properties of Spec: the pool, the artifacts and the merge.              *)

ArtifactOf(c) == filename(Centers[c])

\* C9 (fan-out, fan-in): save_puzzles is entered for every center at most
\* once, and exactly once when the merge runs; the file a center opens is
\* the one named by its own marks and no two centers share a name; the merge
\* runs only after every save_puzzles has returned and was collected, each
\* file then holding the center's whole sorted array.
FanOutFanIn ==
    /\ \A c \in TaskIds :
          runs[c] = IF task[c] \in {"queued", "taken"} THEN 0 ELSE 1
    /\ \A n \in DOMAIN opened : \A c \in opened[n] : opened[n] = {c} /\ n = ArtifactOf(c)
    /\ \A c, d \in TaskIds : c # d => ArtifactOf(c) # ArtifactOf(d)
    /\ pc # "pool" =>
          /\ \A c \in TaskIds : task[c] = "collected" /\ runs[c] = 1
          /\ ~damaged =>
                \A c \in TaskIds :
                    /\ ArtifactOf(c) \in DOMAIN artifacts
                    /\ artifacts[ArtifactOf(c)] = tofile(SortedPuzzles[c], host)

FanOutFanInWitness ==
    /\ pc = "done" /\ ~damaged
    /\ \A c \in TaskIds : runs[c] = 1 /\ opened[ArtifactOf(c)] = {c}
    /\ Len(merged) = SumSeq([c \in TaskIds |-> Len(AllPuzzles[c])], NumTasks)

\* C5 as stated: once save_puzzles(c) has returned, load_puzzles(c) yields
\* the values of all_puzzles(c) in ascending order, as many as were
\* generated, every record decoding to the identifier written.
FileRoundTrip ==
    \A c \in TaskIds :
        (task[c] \in {"saved", "collected"} /\ ~damaged)
        => load_puzzles(artifacts[ArtifactOf(c)]) = SortedPuzzles[c]

\* C6 as stated: if an artifact is absent or its length is no multiple of
\* the record width when the merge runs, the merge fails and no histogram
\* is produced; no value is decoded from fewer than WordBytes bytes.  The
\* first part is stated for a little-endian host, where the records that
\* are complete decode to what was written.
FatalArtifact ==
    /\ (/\ pc # "pool" /\ host = "little"
        /\ \E c \in TaskIds :
              \/ ArtifactOf(c) \notin DOMAIN artifacts
              \/ Len(artifacts[ArtifactOf(c)]) % WordBytes # 0)
       => pc = "failed" /\ counts = <<>> /\ total = 0
    /\ pc \in {"report", "done"} =>
          \A c \in TaskIds :
              Len(inputs[c]) * WordBytes <= Len(artifacts[ArtifactOf(c)])
====
